---- MODULE Spec2Model ----
(***************************************************************************)
(* Z16 instruction set simulator (src/z16sim.cpp): the global simulator    *)
(* state (memory, regs, pc), disassemble, executeInstruction and the       *)
(* fetch/disassemble/execute loop of main.                                 *)
(*                                                                         *)
(* Two specifications are given.  Spec is the program: main loads an       *)
(* image, zeroes the registers and runs the loop.  ExecSpec calls          *)
(* executeInstruction once on an instruction word, register file and PC    *)
(* drawn from bounded sets, for the statements about what one instruction  *)
(* does for all operand values.                                            *)
(***************************************************************************)
EXTENDS Integers, Sequences, FiniteSets

VARIABLES memory, regs, pc, inst, out, state

vars == <<memory, regs, pc, inst, out, state>>

(***************************************************************************)
(* Program constants and integer widths.                                   *)
(***************************************************************************)
MEM_SIZE == 65536

\* uint16_t: regs[], pc and inst are reduced modulo 2^16 on assignment.
U16(x) == x % 65536

\* uint8_t: the decoded fields are stored in uint8_t locals.
U8(x) == x % 256

\* A uint16_t value read as int16_t.
Signed16(v) == IF v >= 32768 THEN v - 65536 ELSE v

\* (x >> k) for a non-negative x.
Shr(x, k) == x \div (2 ^ k)

\* (x << k) computed in int.
Shl(x, k) == x * (2 ^ k)

\* (x & mask) for a mask of the form 2^n - 1.
AndMask(x, mask) == x % (mask + 1)

\* (a | b) for operands with no common set bit.
OrDisjoint(a, b) == a + b

regNames == <<"t0", "ra", "sp", "s0", "s1", "t1", "a0", "a1">>

\* regNames[i] for a C index i in 0..7.
RegName(i) == regNames[i + 1]

(***************************************************************************)
(* Memory is the 65536-byte array; it is represented by its non-zero       *)
(* bytes (a function from the addresses holding a non-zero byte), every    *)
(* other address reads 0 (static storage is zero-initialised).             *)
(***************************************************************************)
MemRead(m, a) == IF a \in DOMAIN m THEN m[a] ELSE 0

MemWrite(m, a, b) ==
    [x \in (IF b = 0 THEN DOMAIN m \ {a} ELSE DOMAIN m \cup {a}) |->
        IF x = a THEN b ELSE m[x]]

(***************************************************************************)
(* Text written to stdout is a sequence of chunks; numbers are converted   *)
(* to digit chunks as printf does.                                         *)
(***************************************************************************)
DecDigits == <<"0", "1", "2", "3", "4", "5", "6", "7", "8", "9">>

HexDigits == <<"0", "1", "2", "3", "4", "5", "6", "7", "8", "9",
               "A", "B", "C", "D", "E", "F">>

RECURSIVE DecNat(_)
DecNat(n) == IF n < 10 THEN <<DecDigits[n + 1]>>
             ELSE DecNat(n \div 10) \o <<DecDigits[(n % 10) + 1]>>

\* printf("%i", n) and printf("%u", n)
DecText(n) == IF n < 0 THEN <<"-">> \o DecNat(0 - n) ELSE DecNat(n)

RECURSIVE HexNat(_)
HexNat(n) == IF n < 16 THEN <<HexDigits[n + 1]>>
             ELSE HexNat(n \div 16) \o <<HexDigits[(n % 16) + 1]>>

RECURSIVE ZeroPad(_, _)
ZeroPad(t, w) == IF Len(t) >= w THEN t ELSE ZeroPad(<<"0">> \o t, w)

\* printf("%0wX", n); w = 1 is "%X".
HexText(n, w) == ZeroPad(HexNat(n), w)

(***************************************************************************)
(* disassemble(inst, pc, buf, bufSize): the text it prints.  It reads only *)
(* its arguments and regNames; each branch is one printf.  A function-code *)
(* combination matched by no branch prints nothing.                        *)
(***************************************************************************)
\* case 0x0
DisRType(w) ==
    LET funct4 == U8(AndMask(Shr(w, 12), 15))
        rs2    == U8(AndMask(Shr(w, 9), 7))
        rd_rs1 == U8(AndMask(Shr(w, 6), 7))
        funct3 == U8(AndMask(Shr(w, 3), 7))
        two(m) == <<m, RegName(rd_rs1), ", ", RegName(rs2)>>
    IN  IF funct4 = 0 /\ funct3 = 0 THEN two("add ")
        ELSE IF funct4 = 1 /\ funct3 = 0 THEN two("sub ")
        ELSE IF funct4 = 2 /\ funct3 = 1 THEN two("slt ")
        ELSE IF funct4 = 3 /\ funct3 = 2 THEN two("sltu ")
        ELSE IF funct4 = 4 /\ funct3 = 3 THEN two("sll ")
        ELSE IF funct4 = 5 /\ funct3 = 3 THEN two("srl ")
        ELSE IF funct4 = 6 /\ funct3 = 3 THEN two("sra ")
        ELSE IF funct4 = 7 /\ funct3 = 4 THEN two("or ")
        ELSE IF funct4 = 8 /\ funct3 = 5 THEN two("and ")
        ELSE IF funct4 = 9 /\ funct3 = 6 THEN two("xor ")
        ELSE IF funct4 = 10 /\ funct3 = 7 THEN two("mv ")
        ELSE IF funct4 = 11 /\ funct3 = 0 THEN <<"jr ", RegName(rd_rs1)>>
        ELSE IF funct4 = 12 /\ funct3 = 0 THEN two("jalr ")
        ELSE <<>>

\* uint8_t imm7 = (inst >> 9) & 0xF;  (disassemble, case 0x1)
DisImm7(w) == U8(AndMask(Shr(w, 9), 15))

\* case 0x1: the immediate is extracted with the mask 0xF.
DisIType(w) ==
    LET imm7   == DisImm7(w)
        rd_rs1 == U8(AndMask(Shr(w, 6), 7))
        funct3 == U8(AndMask(Shr(w, 3), 7))
        shamt_mode == U8(AndMask(Shr(imm7, 4), 7))
        shamt  == U8(AndMask(imm7, 15))
        imm(m) == <<m, RegName(rd_rs1), ", ">> \o DecText(imm7)
        sh(m)  == <<m, RegName(rd_rs1), ", ">> \o DecText(shamt)
    IN  IF funct3 = 0 THEN imm("addi ")
        ELSE IF funct3 = 1 THEN imm("slti ")
        ELSE IF funct3 = 2 THEN imm("sltui ")
        ELSE IF funct3 = 3 THEN
            IF shamt_mode = 1 THEN sh("slli ")
            ELSE IF shamt_mode = 2 THEN sh("srli ")
            ELSE IF shamt_mode = 4 THEN sh("srai ")
            ELSE <<"unknown shift ", RegName(rd_rs1), ", imm=0x">>
                     \o HexText(imm7, 2)
        ELSE IF funct3 = 4 THEN imm("ori ")
        ELSE IF funct3 = 5 THEN imm("andi ")
        ELSE IF funct3 = 6 THEN imm("xori ")
        ELSE imm("li ")

\* case 0x2
DisBType(w) ==
    LET offset == U8(AndMask(Shr(w, 12), 15))
        rs2    == U8(AndMask(Shr(w, 9), 7))
        rd_rs1 == U8(AndMask(Shr(w, 6), 7))
        funct3 == U8(AndMask(Shr(w, 3), 7))
        two(m) == <<m, RegName(rd_rs1), ", ", RegName(rs2), ", ">>
                      \o DecText(offset)
        one(m) == <<m, RegName(rd_rs1), ", ">> \o DecText(offset)
    IN  IF funct3 = 0 THEN two("beq ")
        ELSE IF funct3 = 1 THEN two("bne ")
        ELSE IF funct3 = 2 THEN one("bz ")
        ELSE IF funct3 = 3 THEN one("bnz ")
        ELSE IF funct3 = 4 THEN two("blt ")
        ELSE IF funct3 = 5 THEN two("bge ")
        ELSE IF funct3 = 6 THEN two("bltu ")
        ELSE two("bgeu ")

\* case 0x3
DisSType(w) ==
    LET offset == U8(AndMask(Shr(w, 12), 15))
        rs2    == U8(AndMask(Shr(w, 9), 7))
        rd_rs1 == U8(AndMask(Shr(w, 6), 7))
        funct3 == U8(AndMask(Shr(w, 3), 7))
        mem(m) == <<m, RegName(rd_rs1), ", ">> \o DecText(offset)
                      \o <<"(", RegName(rs2), ")">>
    IN  IF funct3 = 0 THEN mem("sb ")
        ELSE IF funct3 = 1 THEN mem("sw ")
        ELSE <<>>

\* case 0x4
DisLType(w) ==
    LET offset == U8(AndMask(Shr(w, 12), 15))
        rs2    == U8(AndMask(Shr(w, 9), 7))
        rd     == U8(AndMask(Shr(w, 6), 7))
        funct3 == U8(AndMask(Shr(w, 3), 7))
        mem(m) == <<m, RegName(rd), ", ">> \o DecText(offset)
                      \o <<"(", RegName(rs2), ")">>
    IN  IF funct3 = 0 THEN mem("lb ")
        ELSE IF funct3 = 1 THEN mem("lw ")
        ELSE IF funct3 = 4 THEN mem("lbu ")
        ELSE <<>>

\* case 0x5
DisJType(w) ==
    LET flag     == U8(AndMask(Shr(w, 15), 1))
        rd       == U8(AndMask(Shr(w, 6), 7))
        imm_high == U8(AndMask(Shr(w, 9), 63))
        imm_low  == U8(AndMask(Shr(w, 3), 7))
        imm      == U16(OrDisjoint(Shl(imm_high, 4), Shl(imm_low, 1)))
    IN  IF flag = 0 THEN <<"j ">> \o DecText(imm)
        ELSE <<"jal ", RegName(rd), ", ">> \o DecText(imm)

\* case 0x6: imm_high is taken from (inst << 9) & 0x3F, whose low nine bits
\* are zero.
DisUpperImm(w) ==
    LET imm_high == U8(AndMask(Shl(w, 9), 63))
        imm_low  == U8(AndMask(Shr(w, 3), 7))
    IN  U16(OrDisjoint(Shl(imm_high, 10), Shl(imm_low, 7)))

\* case 0x6: the two mnemonics.
DisUType(w) ==
    LET flag     == U8(AndMask(Shr(w, 15), 1))
        rd       == U8(AndMask(Shr(w, 6), 7))
        imm      == DisUpperImm(w)
    IN  IF flag = 0 THEN <<"lui ", RegName(rd), ", ">> \o DecText(imm)
        ELSE <<"auipc ", RegName(rd), ", ">> \o DecText(imm)

\* case 0x7: svc is a uint8_t, so the 9-bit masked value loses its top bit.
DisSvc(w) == U8(AndMask(Shr(w, 6), 511))

\* case 0x7: the mnemonic.
DisSysType(w) ==
    LET svc == DisSvc(w)
    IN  <<"ecall ">> \o DecText(svc)

disassemble(w, p) ==
    LET opcode == U8(AndMask(w, 7))
    IN  CASE opcode = 0 -> DisRType(w)
          [] opcode = 1 -> DisIType(w)
          [] opcode = 2 -> DisBType(w)
          [] opcode = 3 -> DisSType(w)
          [] opcode = 4 -> DisLType(w)
          [] opcode = 5 -> DisJType(w)
          [] opcode = 6 -> DisUType(w)
          [] opcode = 7 -> DisSysType(w)

\* A disassembler that moves the global PC past the word it decoded.
disassembleCall_AdvancesPc(w, p, r, m) ==
    [regs |-> r, memory |-> m, pc |-> (p + 2) % 65536,
     out |-> disassemble(w, p)]

\* The call disassemble(inst, pc, disasmBuf, sizeof(disasmBuf)) as a step on
\* the simulator state: the parameter pc is a copy that hides the global,
\* buf is written only in the default branch, which no opcode takes, and
\* every other statement is a printf.
disassembleCall(w, p, r, m) ==
    [regs |-> r, memory |-> m, pc |-> p, out |-> disassemble(w, p)]

(***************************************************************************)
(* executeInstruction(inst): the new registers, memory and PC, the text it *)
(* prints and its return value (1 continue, 0 terminate).                  *)
(***************************************************************************)
\* The sum kept at int width.
AddResult_NoWrap(a, b) == a + b

\* regs[rd_rs1] + regs[rs2], computed in int and stored into a uint16_t.
AddResult(a, b) == U16(a + b)

\* regs[rd_rs1] - regs[rs2], computed in int and stored into a uint16_t.
SubResult(a, b) == U16(a - b)

\* The advance by one byte instead of one instruction.
NextPC_OneByte(p) == U16(p + 1)

\* The advance on a PC wider than 16 bits.
NextPC_Wide(p) == p + 2

\* if (!pcUpdated) pc += 2;  pc is a uint16_t.
NextPC(p) == U16(p + 2)

\* uint8_t svc = (inst >> 6) & 0x1FF;
SvcOf(w) == U8(AndMask(Shr(w, 6), 511))

\* A register file whose register 0 is hard-wired and ignores writes.
WriteReg_ZeroHardwired(r, i, v) == IF i = 0 THEN r ELSE [r EXCEPT ![i] = v]

\* A write that also lands in the register named by the next index.
WriteReg_Spill(r, i, v) == [r EXCEPT ![i] = v, ![(i + 1) % 8] = v]

\* regs[rd_rs1] = v;
WriteReg(r, i, v) == [r EXCEPT ![i] = v]

\* case 0x0: only add and sub are implemented.
ExecRType(w, r) ==
    LET funct4 == U8(AndMask(Shr(w, 12), 15))
        rs2    == U8(AndMask(Shr(w, 9), 7))
        rd_rs1 == U8(AndMask(Shr(w, 6), 7))
        funct3 == U8(AndMask(Shr(w, 3), 7))
    IN  IF funct4 = 0 /\ funct3 = 0
        THEN WriteReg(r, rd_rs1, AddResult(r[rd_rs1], r[rs2]))
        ELSE IF funct4 = 1 /\ funct3 = 0
        THEN WriteReg(r, rd_rs1, SubResult(r[rd_rs1], r[rs2]))
        ELSE r

\* uint8_t imm7 = (inst >> 9) & 0x7F;  (executeInstruction, case 0x1)
ExecImm7(w) == U8(AndMask(Shr(w, 9), 127))

\* case 0x1: the fields and simm are computed and not used.
ExecIType(w, r) ==
    LET imm7   == ExecImm7(w)
        rd_rs1 == U8(AndMask(Shr(w, 6), 7))
        funct3 == U8(AndMask(Shr(w, 3), 7))
        simm   == IF imm7 >= 64 THEN Signed16(U16(imm7 + 65408)) ELSE imm7
    IN  r

\* The fields executeInstruction decodes from a word: cases 0x0, 0x1 and
\* 0x7 declare fields, the other cases decode nothing.
ExecDecoded(w) ==
    LET opcode == U8(AndMask(w, 7))
    IN  CASE opcode = 0 -> [funct4 |-> U8(AndMask(Shr(w, 12), 15)),
                            rs2    |-> U8(AndMask(Shr(w, 9), 7)),
                            rd_rs1 |-> U8(AndMask(Shr(w, 6), 7)),
                            funct3 |-> U8(AndMask(Shr(w, 3), 7))]
          [] opcode = 1 -> [imm7   |-> ExecImm7(w),
                            rd_rs1 |-> U8(AndMask(Shr(w, 6), 7)),
                            funct3 |-> U8(AndMask(Shr(w, 3), 7))]
          [] opcode = 7 -> [svc |-> SvcOf(w)]
          [] OTHER -> <<>>

\* The fields disassemble decodes from a word of the same three classes.
DisDecoded(w) ==
    LET opcode == U8(AndMask(w, 7))
    IN  CASE opcode = 0 -> [funct4 |-> U8(AndMask(Shr(w, 12), 15)),
                            rs2    |-> U8(AndMask(Shr(w, 9), 7)),
                            rd_rs1 |-> U8(AndMask(Shr(w, 6), 7)),
                            funct3 |-> U8(AndMask(Shr(w, 3), 7))]
          [] opcode = 1 -> [imm7   |-> DisImm7(w),
                            rd_rs1 |-> U8(AndMask(Shr(w, 6), 7)),
                            funct3 |-> U8(AndMask(Shr(w, 3), 7))]
          [] opcode = 7 -> [svc |-> DisSvc(w)]
          [] OTHER -> <<>>

executeInstruction(w, r, m, p) ==
    LET opcode == U8(AndMask(w, 7))
        \* cases 0x2, 0x3, 0x5 and 0x6 are empty; 0x4 has no case and takes
        \* the default branch.
        newRegs == CASE opcode = 0 -> ExecRType(w, r)
                     [] opcode = 1 -> ExecIType(w, r)
                     [] OTHER -> r
        text    == IF opcode = 4
                   THEN <<"Unknown instruction opcode 0x">>
                            \o HexText(opcode, 1) \o <<"\n">>
                   ELSE <<>>
        pcUpdated == FALSE
    IN  IF opcode = 7 /\ SvcOf(w) = 1023
        THEN [regs |-> r, memory |-> m, pc |-> p, out |-> <<>>, ret |-> 0]
        ELSE [regs |-> newRegs, memory |-> m,
              pc |-> IF pcUpdated THEN p ELSE NextPC(p),
              out |-> text, ret |-> 1]

(***************************************************************************)
(* loadMemoryFromFile and main.                                            *)
(***************************************************************************)
\* The low and the high byte of a word, in the order they lie in the file.
WordBytes(w) == <<w % 256, w \div 256>>

RECURSIVE ImageBytes(_)
ImageBytes(prog) ==
    IF prog = <<>> THEN <<>>
    ELSE WordBytes(Head(prog)) \o ImageBytes(Tail(prog))

\* fread(memory, 1, MEM_SIZE, fp): at most MEM_SIZE bytes, from address 0.
LoadImage(bytes) ==
    [a \in {x \in 0 .. (IF Len(bytes) < MEM_SIZE THEN Len(bytes)
                        ELSE MEM_SIZE) - 1 : bytes[x + 1] # 0}
        |-> bytes[a + 1]]

\* printf("Loaded %zu bytes into memory\n", n);
LoadText(bytes) ==
    <<"Loaded ">>
        \o DecText(IF Len(bytes) < MEM_SIZE THEN Len(bytes) ELSE MEM_SIZE)
        \o <<" bytes into memory\n">>

\* The fetch of the two bytes one address too high.
FetchAddrs_Shifted(p) == <<p + 1, p + 2>>

\* The indices of memory[] read by the fetch; pc + 1 is computed in int.
FetchAddrs(p) == <<p, p + 1>>

\* The bytes a read of memory[a] can give; an index past the array reads
\* whatever lies behind it.
ReadByte(m, a) == IF a < MEM_SIZE THEN {MemRead(m, a)} ELSE 0 .. 255

\* uint16_t inst = memory[pc] | (memory[pc + 1] << 8);
FetchWords(m, p) ==
    {U16(OrDisjoint(lo, Shl(hi, 8))) :
        lo \in ReadByte(m, FetchAddrs(p)[1]),
        hi \in ReadByte(m, FetchAddrs(p)[2])}

\* printf("0x%04X: ", pc); disassemble(...); printf("\n");
TraceText(w, p, text) == <<"0x">> \o HexText(p, 4) \o <<": ">>
                             \o text \o <<"\n">>

(***************************************************************************)
(* Bounds and input sets.                                                  *)
(***************************************************************************)
\* Number of instruction words in the loaded image file.
MaxProgWords == 1

\* ecall 3, ecall 1, j 4, li t0 5, lb t0 0(t0)
ProgWords == {199, 71, 21, 2617, 4}

\* Register values, PC values and memories ExecSpec starts from.
RegVals == {0, 1, 32767, 32768, 65529}

PcVals == {0, 2, 65534}

ExecMems == {LoadImage(<<>>), LoadImage(<<255, 128, 7>>)}

\* [15:12] | [11:9] | [8:6] | [5:3] | [2:0], the layout of every format.
EncodeWord(f4, rs2, rd, f3, op) ==
    f4 * 4096 + rs2 * 512 + rd * 64 + f3 * 8 + op

\* Instruction words ExecSpec executes: every opcode, with add, sub, mv,
\* li, sb, j, lui, ecall 1, 3, 5, 259 and 1023 among them, and the Imm
\* shift words of shift mode 1, 2, 4, 0 and 7.
ExecWords ==
    {EncodeWord(f4, rs2, rd, f3, op) :
        f4 \in {0, 1, 15}, rs2 \in {0, 5, 7}, rd \in {0, 1, 3, 6},
        f3 \in {0, 2, 7}, op \in 0 .. 7}
    \cup {EncodeWord(10, 1, 0, 7, 0), EncodeWord(4, 0, 3, 0, 7),
          EncodeWord(15, 7, 7, 7, 7), EncodeWord(0, 0, 0, 4, 4),
          EncodeWord(2, 5, 1, 3, 1), EncodeWord(4, 5, 1, 3, 1),
          EncodeWord(8, 5, 1, 3, 1), EncodeWord(0, 5, 1, 3, 1),
          EncodeWord(15, 5, 1, 3, 1)}

(***************************************************************************)
(* Spec: main.  The image is loaded, the registers are zeroed, pc = 0.     *)
(***************************************************************************)
Init ==
    \E n \in 0 .. MaxProgWords :
        \E prog \in [1 .. n -> ProgWords] :
            /\ memory = LoadImage(ImageBytes(prog))
            /\ out = LoadText(ImageBytes(prog))
            /\ regs = [i \in 0 .. 7 |-> 0]
            /\ pc = 0
            /\ inst = 0
            /\ state = "RUNNING"

\* One evaluation of the loop condition and, if it holds, one iteration:
\* fetch, trace, execute, and the two exits of the body.
MainLoop ==
    /\ state = "RUNNING"
    /\ IF pc < MEM_SIZE
       THEN \E w \in FetchWords(memory, pc) :
              LET d == disassembleCall(w, pc, regs, memory)
                  r == executeInstruction(w, d.regs, d.memory, d.pc)
              IN  /\ inst' = w
                  /\ regs' = r.regs
                  /\ memory' = r.memory
                  /\ pc' = r.pc
                  /\ out' = TraceText(w, pc, d.out) \o r.out
                  /\ state' = IF r.ret = 0 \/ r.pc >= MEM_SIZE
                              THEN "HALTED" ELSE "RUNNING"
       ELSE /\ state' = "HALTED"
            /\ UNCHANGED <<memory, regs, pc, inst, out>>

Next == MainLoop

Spec == Init /\ [][Next]_vars

(***************************************************************************)
(* ExecSpec: one call executeInstruction(inst) from a state whose          *)
(* registers, PC, memory and instruction word are drawn from the sets      *)
(* above.  state is CALL before the call and RET0 / RET1 (the value        *)
(* returned) after it.  The same inputs are given to one call of           *)
(* disassemble: state is DIS before that call and DISRET after it.         *)
(***************************************************************************)
ExecInit ==
    /\ memory \in ExecMems
    /\ \E x \in RegVals, y \in RegVals :
          regs = [i \in 0 .. 7 |-> IF i % 2 = 0 THEN x ELSE y]
    /\ pc \in PcVals
    /\ inst \in ExecWords
    /\ out = <<>>
    /\ state \in {"CALL", "DIS"}

ExecCall ==
    /\ state = "CALL"
    /\ LET r == executeInstruction(inst, regs, memory, pc)
       IN  /\ regs' = r.regs
           /\ memory' = r.memory
           /\ pc' = r.pc
           /\ out' = r.out
           /\ state' = IF r.ret = 0 THEN "RET0" ELSE "RET1"
    /\ UNCHANGED inst

DisCall ==
    /\ state = "DIS"
    /\ LET d == disassembleCall(inst, pc, regs, memory)
       IN  /\ regs' = d.regs
           /\ memory' = d.memory
           /\ pc' = d.pc
           /\ out' = d.out
           /\ state' = "DISRET"
    /\ UNCHANGED inst

ExecNext == ExecCall \/ DisCall

ExecSpec == ExecInit /\ [][ExecNext]_vars

TypeOK ==
    /\ pc \in 0 .. 65535
    /\ inst \in 0 .. 65535
    /\ \A i \in 0 .. 7 : regs[i] \in 0 .. 65535
    /\ \A a \in DOMAIN memory : a \in 0 .. MEM_SIZE - 1 /\ memory[a] \in 1 .. 255
    /\ state \in {"RUNNING", "HALTED", "CALL", "RET0", "RET1", "DIS", "DISRET"}

(***************************************************************************)
(* The instruction formats as documented: field positions, immediates and  *)
(* the control-flow instructions.  The properties below are stated with    *)
(* these, not with the decoding done by executeInstruction.                *)
(***************************************************************************)
FOpcode(w) == w % 8

FFunct3(w) == (w \div 8) % 8

FRd(w) == (w \div 64) % 8

FRs2(w) == (w \div 512) % 8

FFunct4(w) == (w \div 4096) % 16

FImm7(w) == (w \div 512) % 128

FSvc(w) == w \div 64

\* Sign extension of an n-bit field to the integer it denotes.
SignExt(v, n) == IF v >= 2 ^ (n - 1) THEN v - 2 ^ n ELSE v

\* The jump immediate (imm_hi << 4) | (imm_lo << 1), signed.
FJumpImm(w) == SignExt(((w \div 512) % 64) * 16 + ((w \div 8) % 8) * 2, 10)

\* Effective address of a load or store: base register plus signed imm4.
FEffAddr(w, r) == r[FRs2(w)] + SignExt(FFunct4(w), 4)

IsAdd(w) == FOpcode(w) = 0 /\ FFunct4(w) = 0 /\ FFunct3(w) = 0

IsSub(w) == FOpcode(w) = 0 /\ FFunct4(w) = 1 /\ FFunct3(w) = 0

IsLi(w) == FOpcode(w) = 1 /\ FFunct3(w) = 7

IsJ(w) == FOpcode(w) = 5 /\ w < 32768

IsSb(w) == FOpcode(w) = 3 /\ FFunct3(w) = 0

IsLb(w) == FOpcode(w) = 4 /\ FFunct3(w) = 0

IsLbu(w) == FOpcode(w) = 4 /\ FFunct3(w) = 4

IsEcall(w, n) == FOpcode(w) = 7 /\ FSvc(w) = n

\* branch, j/jal, jr/jalr and the halting ecall
IsControlFlow(w) ==
    \/ FOpcode(w) = 2
    \/ FOpcode(w) = 5
    \/ FOpcode(w) = 0 /\ FFunct4(w) \in {11, 12} /\ FFunct3(w) = 0
    \/ IsEcall(w, 3)

\* The word stored at the even address a and a + 1.
WordAt(m, a) == MemRead(m, a) + 256 * MemRead(m, a + 1)

\* No word of the image is a control-flow instruction (the bytes the image
\* leaves zero are the word 0, add t0, t0).
NoControlFlowImage(m) ==
    \A a \in DOMAIN m : ~IsControlFlow(WordAt(m, 2 * (a \div 2)))

\* Text t occurs in the output o.
EmitsText(o, t) ==
    \E i \in 0 .. Len(o) - Len(t) : SubSeq(o, i + 1, i + Len(t)) = t

(***************************************************************************)
(* Properties.                                                             *)
(***************************************************************************)

\* C1: executing a System instruction with service number 3 halts the
\* simulation: the loop goes from RUNNING to HALTED and PC is not advanced.
\* Stated for Spec; the code violates it (svc is compared with 0x3FF after
\* being narrowed to 8 bits, so executeInstruction never returns 0).
C1_Svc3Halts ==
    [][(state = "RUNNING" /\ IsEcall(inst', 3))
          => (state' = "HALTED" /\ pc' = pc)]_vars

\* C2: on an image with no control-flow instruction and no halting ecall,
\* when the PC advances past the last memory address the loop goes to
\* HALTED instead of continuing from address 0.  Stated for Spec; the code
\* violates it (pc is a uint16_t and wraps from 65534 to 0).
C2_ExhaustionHalts ==
    [][(state = "RUNNING" /\ pc = MEM_SIZE - 2 /\ NoControlFlowImage(memory))
          => state' = "HALTED"]_vars

\* C3: executing a System instruction with service number 1 prints the
\* decimal text of a0 (x6) read as a signed 16-bit integer, advances PC by
\* 2 and leaves registers and memory unchanged.  Stated for ExecSpec; the
\* code violates it (nothing is printed for any service number).
C3_Svc1PrintsA0 ==
    [][(state = "CALL" /\ IsEcall(inst, 1))
          => /\ EmitsText(out', DecText(Signed16(regs[6])))
             /\ pc' = (pc + 2) % 65536
             /\ regs' = regs
             /\ memory' = memory
             /\ state' = "RET1"]_vars

\* C4: the program counter is even in every reachable state of the loop.
C4_PcEven == pc % 2 = 0

\* The loop has run through the whole address space and wrapped: the last
\* trace line is the one of address 0xFFFE and pc is 0 again.
C4_Witness ==
    /\ state = "RUNNING"
    /\ pc = 0
    /\ Len(out) >= 5
    /\ SubSeq(out, 1, 5) = <<"0x", "F", "F", "F", "E">>

\* C5: whenever the loop fetches, the two byte indices it reads, pc and
\* pc + 1, are within 0 .. MEM_SIZE - 1.
C5_FetchInBounds ==
    (state = "RUNNING" /\ pc < MEM_SIZE)
        => \A i \in 1 .. 2 : FetchAddrs(pc)[i] \in 0 .. MEM_SIZE - 1

\* A fetch whose high byte is the last byte of memory.
C5_Witness ==
    /\ state = "RUNNING"
    /\ FetchAddrs(pc)[2] = MEM_SIZE - 1

\* C6: every instruction that is not control-flow leaves PC at the PC it
\* was fetched at plus 2 (modulo 2^16), together with its register and
\* memory effects.
C6_DefaultAdvance ==
    [][(state = "CALL" /\ ~IsControlFlow(inst))
          => (pc' = (pc + 2) % 65536 /\ state' = "RET1")]_vars

\* An add that changed its register has returned with the PC wrapped from
\* 0xFFFE to 0.
C6_Witness ==
    /\ state = "RET1"
    /\ IsAdd(inst) /\ FRd(inst) = 1 /\ FRs2(inst) = 0
    /\ regs[0] = 1 /\ regs[3] = 32767 /\ regs[1] = 32768
    /\ pc = 0

\* C7: add stores (old rd_rs1 + old rs2) mod 2^16 and sub stores
\* (old rd_rs1 - old rs2) mod 2^16 in rd_rs1, also when rd_rs1 = rs2; the
\* result is within 0 .. 65535 and is the signed sum (difference) up to a
\* multiple of 2^16.
C7_AddSubWrap ==
    [][(state = "CALL" /\ (IsAdd(inst) \/ IsSub(inst)))
          => LET a == regs[FRd(inst)]
                 b == regs[FRs2(inst)]
                 v == regs'[FRd(inst)]
                 e == IF IsAdd(inst) THEN a + b ELSE a - b
                 se == IF IsAdd(inst) THEN Signed16(a) + Signed16(b)
                       ELSE Signed16(a) - Signed16(b)
             IN  /\ v \in 0 .. 65535
                 /\ v = e % 65536
                 /\ (Signed16(v) - se) % 65536 = 0]_vars

\* add t0, t0 with t0 = 0x8000 has wrapped to 0 (sp still holds the old
\* value of the even registers).
C7_Witness ==
    /\ state = "RET1"
    /\ IsAdd(inst) /\ FRd(inst) = 0 /\ FRs2(inst) = 0
    /\ regs[2] = 32768 /\ regs[0] = 0

\* C8: li (opcode 1, funct3 = 7) sets rd_rs1 to imm7 sign-extended from
\* bit 6, leaves the other registers and memory unchanged and advances PC
\* by 2.  Stated for ExecSpec; the code violates it (case 0x1 writes no
\* register).
C8_LiLoadsImm ==
    [][(state = "CALL" /\ IsLi(inst))
          => /\ regs' = [regs EXCEPT
                            ![FRd(inst)] = SignExt(FImm7(inst), 7) % 65536]
             /\ memory' = memory
             /\ pc' = (pc + 2) % 65536]_vars

\* C9: j (opcode 5, link = 0) sets PC to PC + imm and changes no register
\* and no memory byte.  Stated for ExecSpec; the code violates it (case 0x5
\* is empty and the default advance by 2 is applied).
C9_JumpSetsPc ==
    [][(state = "CALL" /\ IsJ(inst))
          => /\ pc' = (pc + FJumpImm(inst)) % 65536
             /\ regs' = regs
             /\ memory' = memory]_vars

\* C10: sb writes the low byte of rd_rs1 to memory[A] and changes nothing
\* else in memory; lbu loads memory[A] zero-extended and lb loads it
\* sign-extended from bit 7, so that sb followed by lbu / lb of the same
\* in-range address returns the stored byte.  Stated for ExecSpec; the code
\* violates it (case 0x3 is empty and opcode 4 has no case).
C10_StoreLoadRoundTrip ==
    [][(state = "CALL" /\ FEffAddr(inst, regs) \in 0 .. MEM_SIZE - 1)
          => LET A == FEffAddr(inst, regs)
                 byte == MemRead(memory, A)
             IN  /\ IsSb(inst)
                      => memory' = MemWrite(memory, A, regs[FRd(inst)] % 256)
                 /\ IsLbu(inst) => regs'[FRd(inst)] = byte
                 /\ IsLb(inst)
                      => regs'[FRd(inst)] = SignExt(byte, 8) % 65536]_vars

(***************************************************************************)
(* Documented semantics used by the properties of the branch, decode and   *)
(* unimplemented-operation statements.                                     *)
(***************************************************************************)
\* Branch displacement: the 4-bit field shifted left by one, sign-extended
\* from 5 bits.
FBranchDisp(w) == SignExt(FFunct4(w) * 2, 5)

\* The branch condition selected by funct3 on rd_rs1 and rs2.
FBranchTaken(w, r) ==
    LET a == r[FRd(w)]
        b == r[FRs2(w)]
        f == FFunct3(w)
    IN  CASE f = 0 -> a = b
          [] f = 1 -> a # b
          [] f = 2 -> a = 0
          [] f = 3 -> a # 0
          [] f = 4 -> Signed16(a) < Signed16(b)
          [] f = 5 -> Signed16(a) >= Signed16(b)
          [] f = 6 -> a < b
          [] f = 7 -> a >= b

\* Upper immediate: imm_hi = inst[14:9] to bits 15:10, imm_lo to bits 9:7.
FUpperImm(w) == ((w \div 512) % 64) * 1024 + ((w \div 8) % 8) * 128

\* The (funct4, funct3) pairs RegReg defines.
FDefinedRegReg ==
    {<<0, 0>>, <<1, 0>>, <<2, 1>>, <<3, 2>>, <<4, 3>>, <<5, 3>>, <<6, 3>>,
     <<7, 4>>, <<8, 5>>, <<9, 6>>, <<10, 7>>, <<11, 0>>, <<12, 0>>}

FShiftMode(w) == FImm7(w) \div 16

FShamt(w) == FImm7(w) % 16

\* A function-code combination with no defined semantics in its class.
FUndefinedOp(w) ==
    \/ FOpcode(w) = 0 /\ <<FFunct4(w), FFunct3(w)>> \notin FDefinedRegReg
    \/ FOpcode(w) = 1 /\ FFunct3(w) = 3 /\ FShiftMode(w) \notin {1, 2, 4}
    \/ FOpcode(w) = 7 /\ FSvc(w) \notin {1, 3, 5}

\* C11: a Branch instruction sets PC to PC + sign_extend(offset * 2) if its
\* condition holds and to PC + 2 otherwise, and changes no register and no
\* memory byte.  Stated for ExecSpec; the code violates it (case 0x2 is
\* empty, so a taken branch also advances by 2).
C11_BranchSetsPc ==
    [][(state = "CALL" /\ FOpcode(inst) = 2)
          => /\ pc' = (IF FBranchTaken(inst, regs)
                       THEN pc + FBranchDisp(inst) ELSE pc + 2) % 65536
             /\ regs' = regs
             /\ memory' = memory]_vars

\* C12: for every word the fields disassemble extracts equal the fields
\* executeInstruction extracts; in particular both use the same 7-bit
\* immediate for an Imm word.  Stated for ExecSpec; the code violates it
\* (disassemble masks the immediate with 0xF, executeInstruction with 0x7F).
C12_DecodersAgree ==
    state = "DISRET" => DisDecoded(inst) = ExecDecoded(inst)

\* C13: decoding a word built from field values gives the field values
\* back: the System service number is the 10-bit inst[15:6], the Upper
\* immediate is (inst[14:9] << 10) | (inst[5:3] << 7), the Imm immediate is
\* inst[15:9].  Stated for ExecSpec; the code violates it (svc is narrowed
\* to 8 bits, the Upper imm_high is always 0, the Imm immediate of the
\* disassembler has 4 bits).
C13_DecodeRoundTrip ==
    state = "DISRET"
        => /\ FOpcode(inst) = 7
                => (DisSvc(inst) = FSvc(inst) /\ SvcOf(inst) = FSvc(inst))
           /\ FOpcode(inst) = 6 => DisUpperImm(inst) = FUpperImm(inst)
           /\ FOpcode(inst) = 1
                => (DisImm7(inst) = FImm7(inst) /\ ExecImm7(inst) = FImm7(inst))

\* C14: disassemble produces non-empty text for every word.  Stated for
\* ExecSpec; the code violates it (a RegReg, Store or Load word whose
\* function codes match no branch prints nothing).
C14_DisassemblyNonEmpty == state = "DISRET" => Len(out) > 0

\* C15: the unknown-opcode path of executeInstruction is reached for no
\* word.  Stated for ExecSpec; the code violates it (the switch has no case
\* 0x4, so every Load word takes the default branch).
C15_DispatchTotal ==
    state \in {"RET0", "RET1"}
        => ~EmitsText(out, <<"Unknown instruction opcode 0x">>)

\* C16: an Imm word with funct3 = 3 is rendered slli, srli or srai with the
\* low 4 bits of the immediate as shift amount when the top 3 bits are 1, 2
\* or 4, and as the unknown-shift marker otherwise.  Stated for ExecSpec;
\* the code violates it (the immediate was masked to 4 bits, so the mode is
\* always 0 and every such word is rendered as unknown shift).
C16_ShiftRendering ==
    (state = "DISRET" /\ FOpcode(inst) = 1 /\ FFunct3(inst) = 3)
        => LET sh(m) == <<m, RegName(FRd(inst)), ", ">>
                            \o DecText(FShamt(inst))
           IN  CASE FShiftMode(inst) = 1 -> out = sh("slli ")
                 [] FShiftMode(inst) = 2 -> out = sh("srli ")
                 [] FShiftMode(inst) = 4 -> out = sh("srai ")
                 [] OTHER -> Len(out) > 0 /\ out[1] = "unknown shift "

\* C17: an instruction whose function-code combination has no defined
\* semantics is not executed silently: executeInstruction reports it.
\* Stated for ExecSpec; the code violates it (an undefined RegReg pair, an
\* undefined shift mode and an undefined service number print nothing and
\* only advance PC).
C17_NoSilentNoOp ==
    [][(state = "CALL" /\ FUndefinedOp(inst)) => Len(out') > 0]_vars

\* C18: register 0 is an ordinary register: add / sub with rd_rs1 = 0
\* leaves the computed value in it, zero or not, and an instruction whose
\* destination field is another register leaves register 0 as it was.
C18_Reg0Mutable ==
    [][state = "CALL"
          => /\ (IsAdd(inst) /\ FRd(inst) = 0)
                  => regs'[0] = (regs[0] + regs[FRs2(inst)]) % 65536
             /\ (IsSub(inst) /\ FRd(inst) = 0)
                  => regs'[0] = (regs[0] - regs[FRs2(inst)]) % 65536
             /\ FRd(inst) # 0 => regs'[0] = regs[0]]_vars

\* add t0, t1 with t0 = 0 and t1 = 1 has left 1 in register 0.
C18_Witness ==
    /\ state = "RET1"
    /\ IsAdd(inst) /\ FRd(inst) = 0 /\ FRs2(inst) = 5
    /\ regs[2] = 0 /\ regs[5] = 1 /\ regs[0] = 1

\* C19: disassemble leaves the eight registers, every memory byte and the
\* global PC as they were.
C19_DisassembleFrame ==
    [][state = "DIS" => (regs' = regs /\ memory' = memory /\ pc' = pc)]_vars

\* disassemble has returned text for a state with non-zero registers and
\* memory and the PC at the last word.
C19_Witness ==
    /\ state = "DISRET"
    /\ Len(out) > 0
    /\ regs[0] = 65529 /\ regs[1] = 32768
    /\ DOMAIN memory # {}
    /\ pc = MEM_SIZE - 2

\* C20: one executed instruction changes no register other than the one
\* its rd / rd_rs1 field names, and no instruction other than a store
\* changes a memory byte.
C20_StepFrame ==
    [][state = "CALL"
          => /\ \A i \in 0 .. 7 : i # FRd(inst) => regs'[i] = regs[i]
             /\ FOpcode(inst) # 3 => memory' = memory]_vars

\* sub ra, t0 has changed ra (1 - 32767) next to a non-zero memory.
C20_Witness ==
    /\ state = "RET1"
    /\ IsSub(inst) /\ FRd(inst) = 1 /\ FRs2(inst) = 0
    /\ regs[0] = 32767 /\ regs[3] = 1 /\ regs[1] = 32770
    /\ DOMAIN memory # {}

====
